---- MODULE Spec2Model ----
(***************************************************************************)
(* A model of the minus80 Cohort catalog (src/minus80/Cohort.py) and of    *)
(* the Freezable bulk transaction it is built on                           *)
(* (src/minus80/Freezable.py).                                             *)
(*                                                                         *)
(* The relational state is the content of the sqlite tables created by     *)
(* Cohort._initialize_tables, together with the AUTOINCREMENT counter of   *)
(* the accessions table (sqlite_sequence).  The identity cache is the      *)
(* lru_cache that wraps Cohort._get_AID.  Every public method of the       *)
(* Cohort is one action.                                                   *)
(*                                                                         *)
(* Cohort.py opens its transactions with self._bulk_transaction(); the     *)
(* only transaction primitive of the repository is                         *)
(* Freezable.bulk_transaction, which is what the model uses there.         *)
(***************************************************************************)
EXTENDS Integers, Sequences, FiniteSets, TLC

\* ---------------------------------------------------------------------
\* Bounds
\* ---------------------------------------------------------------------
\* number of calls made on the Cohort
MaxCalls == 3
\* largest number of Accessions handed to one add_accessions call
MaxBatch == 2
\* largest number of files of one Accession
MaxFiles == 1
\* largest number of Accessions asked of random_accessions
MaxSample == 3

\* ---------------------------------------------------------------------
\* Values
\* ---------------------------------------------------------------------
\* Python None, bound as SQL NULL
None == "None"
\* the names of Accessions
Names == {"a", "bb"}
\* the metadata values: a string that is also a name, and the decimal
\* string of an AID
Vals == {"bb", "1"}
\* the strings used as identifiers
Str == Names \cup Vals
\* metadata keys (columns)
Cols == {"k"}
\* file paths
Paths == {"f"}
\* values of min_alias_length tried
MinLens == {1, 2}

\* decimal strings, as sqlite's INTEGER affinity converts them when a text
\* parameter is compared with the INTEGER PRIMARY KEY column AID
Decimal == <<"1", "2", "3", "4", "5", "6", "7", "8", "9">>
ToInt(s) ==
    IF \E i \in DOMAIN Decimal : Decimal[i] = s
    THEN CHOOSE i \in DOMAIN Decimal : Decimal[i] = s
    ELSE 0

\* An Accession handed in by the caller: a name, keyword metadata and a
\* list of files.  metadata is the set of items of the dict.
IsDict(m) == \A p \in m : \A q \in m : p[1] = q[1] => p = q
MetadataDicts == {m \in SUBSET (Cols \X (Vals \cup {None})) : IsDict(m)}
FileLists == UNION {[1..n -> Paths] : n \in 0..MaxFiles}
Accession == [name : Names, metadata : MetadataDicts, files : FileLists]
\* the lists of at most MaxBatch Accessions drawn from A
Batches(A) == UNION {[1..n -> A] : n \in 1..MaxBatch}
\* Accessions with one metadata value and no file
Described == {x \in Accession : x.files = <<>> /\ \E v \in Vals : x.metadata = {<<"k", v>>}}
\* Accessions with or without files
Filed == {x \in Accession : x.metadata = {<<"k", "1">>}}
\* Accessions with no file, some with a metadata value of None
Flawed == {x \in Accession : x.files = <<>> /\ x.metadata \in {{<<"k", "1">>}, {<<"k", None>>}}}

\* Arguments of _get_AID, which are also the keys of its lru_cache: a
\* string, or an Accession object (obj), identified by its name.
StrKey(s) == [obj |-> FALSE, id |-> s]
ObjKey(s) == [obj |-> TRUE, id |-> s]
Keys == {StrKey(s) : s \in Str} \cup {ObjKey(s) : s \in Names}
\* the identifiers callers look up
Identifiers == {StrKey(s) : s \in Str}

VARIABLES
    db,      \* the sqlite tables of the Cohort
    cache,   \* the lru_cache of _get_AID: key -> AID, 0 when not memoized
    last,    \* the call that produced this state and what it returned
    calls,   \* the number of calls made so far
    fs,      \* the directories made and the tables stored under them
    objects, \* the Freezable objects constructed
    tasks,   \* the calls in flight when two tasks use the Cohort
    peer     \* a second Cohort of the process: its tables and its entries
             \* in the lru_cache of _get_AID

vars == <<db, cache, last, calls, fs, objects, tasks, peer>>

Range(f) == {f[i] : i \in DOMAIN f}
Max(S) == IF S = {} THEN 0 ELSE CHOOSE x \in S : \A y \in S : y <= x

\* ---------------------------------------------------------------------
\* The schema (Cohort._initialize_tables)
\* ---------------------------------------------------------------------
EmptyDB ==
    [accessions |-> {},   \* rows [AID, name], name unique
     seq        |-> 0,    \* sqlite_sequence of accessions (AUTOINCREMENT)
     aliases    |-> {},   \* rows [alias, AID], alias unique
     metadata   |-> {},   \* rows <<AID, key, val>>, unique as triples
     raw_files  |-> {},   \* rows [FID, path], path unique
     aid_files  |-> {},   \* rows [AID, FID], primary key (AID, FID)
     globals    |-> {}]   \* rows [key, val, type], key unique (Freezable)

\* the view files: aid_files JOIN raw_files ON FID
files_view(d) ==
    UNION {{[AID |-> l.AID, path |-> r.path] :
               r \in {y \in d.raw_files : y.FID = l.FID}} : l \in d.aid_files}

EmptyCache == [key \in Keys |-> 0]

\* ---------------------------------------------------------------------
\* SQL statements
\* ---------------------------------------------------------------------
\* INSERT OR REPLACE INTO accessions (name) VALUES (?): the row of a known
\* name is deleted and inserted again under the next AID
insert_name_or_replace(d, name) ==
    [d EXCEPT !.seq = @ + 1,
              !.accessions = {r \in @ : r.name # name} \cup
                                {[AID |-> d.seq + 1, name |-> name]}]

\* INSERT OR IGNORE INTO accessions (name) VALUES (?)
\* AUTOINCREMENT draws the next AID even when the row is then ignored.
insert_name(d, name) ==
    IF \E r \in d.accessions : r.name = name
    THEN [d EXCEPT !.seq = @ + 1]
    ELSE [d EXCEPT !.seq = @ + 1,
                   !.accessions = @ \cup {[AID |-> d.seq + 1, name |-> name]}]

RECURSIVE insert_names(_, _)
insert_names(d, names) ==
    IF names = <<>> THEN d
    ELSE insert_names(insert_name(d, Head(names)), Tail(names))

\* INSERT OR REPLACE INTO metadata (AID, key, val) VALUES (?, ?, ?)
\* for the rows <<AID, key, val>> of one executemany, in order; val is
\* NOT NULL, so the row that binds None aborts with a constraint error
\* and the rows before it stay written.
RECURSIVE insert_metadata(_, _)
insert_metadata(d, rows) ==
    IF rows = <<>> THEN [db |-> d, exc |-> "none"]
    ELSE IF Head(rows)[3] = None THEN [db |-> d, exc |-> "ConstraintError"]
    ELSE insert_metadata([d EXCEPT !.metadata = @ \cup {Head(rows)}], Tail(rows))

\* INSERT OR IGNORE INTO raw_files (path) VALUES (?)
insert_raw_file(d, path) ==
    IF \E r \in d.raw_files : r.path = path
    THEN d
    ELSE [d EXCEPT !.raw_files = @ \cup
            {[FID |-> Max({r.FID : r \in d.raw_files}) + 1, path |-> path]}]

RECURSIVE insert_raw_files(_, _)
insert_raw_files(d, paths) ==
    IF paths = <<>> THEN d
    ELSE insert_raw_files(insert_raw_file(d, Head(paths)), Tail(paths))

\* INSERT OR REPLACE INTO files (AID, path) VALUES (?, ?)
\* runs the trigger assign_FID under the REPLACE policy of the statement
\* that fired it: the raw_files row of a known path is deleted and
\* inserted again under the next FID, then the link row is written.
assign_FID(d, AID, path) ==
    LET FID == Max({r.FID : r \in d.raw_files}) + 1
    IN  [d EXCEPT !.raw_files = {r \in @ : r.path # path} \cup
                                    {[FID |-> FID, path |-> path]},
                  !.aid_files = @ \cup {[AID |-> AID, FID |-> FID]}]

\* the rows of the executemany are pairs <<AID, path>>
RECURSIVE insert_files(_, _)
insert_files(d, rows) ==
    IF rows = <<>> THEN d
    ELSE insert_files(assign_FID(d, Head(rows)[1], Head(rows)[2]), Tail(rows))

\* ---------------------------------------------------------------------
\* Helpers over rows
\* ---------------------------------------------------------------------
\* the order of the BINARY collation on the strings of the model
StrRank(s) == CASE s = "1" -> 1 [] s = "a" -> 2 [] s = "bb" -> 3 [] OTHER -> 0

\* a set as a sequence, in some fixed order
RECURSIVE SetToSeq(_)
SetToSeq(S) ==
    IF S = {} THEN <<>>
    ELSE LET x == CHOOSE y \in S : TRUE IN <<x>> \o SetToSeq(S \ {x})

\* the rows of accessions in rowid (AID) order, as a table scan yields them
RECURSIVE ByAID(_)
ByAID(rows) ==
    IF rows = {} THEN <<>>
    ELSE LET r == CHOOSE x \in rows : \A y \in rows : x.AID <= y.AID
         IN  <<r>> \o ByAID(rows \ {r})

\* the sequence of sequences ss, flattened
RECURSIVE Flatten(_)
Flatten(ss) == IF ss = <<>> THEN <<>> ELSE Head(ss) \o Flatten(Tail(ss))

\* ---------------------------------------------------------------------
\* Identity resolution (Cohort._get_AID) and its lru_cache
\* ---------------------------------------------------------------------
\* no AID: the body raised NameError (AIDs start at 1)
NotFound == 0

\* the body of _get_AID on the name of the identifier: exact name, then
\* exact alias, then AID
get_AID_body(d, name) ==
    LET byName  == {r \in d.accessions : r.name = name}
        byAlias == {r \in d.aliases : r.alias = name}
        byAID   == {r \in d.accessions : r.AID = ToInt(name)}
    IN  IF byName # {} THEN (CHOOSE r \in byName : TRUE).AID
        ELSE IF byAlias # {} THEN (CHOOSE r \in byAlias : TRUE).AID
        ELSE IF byAID # {} THEN (CHOOSE r \in byAID : TRUE).AID
        ELSE NotFound

\* _get_AID as called: lru_cache returns the memoized AID of the key when
\* it has one, and memoizes what the body returns; a raised NameError is
\* not memoized.
get_AID(d, c, key) ==
    IF c[key] # 0
    THEN [AID |-> c[key], cache |-> c]
    ELSE LET AID == get_AID_body(d, key.id)
         IN  [AID |-> AID,
              cache |-> IF AID = NotFound THEN c ELSE [c EXCEPT ![key] = AID]]

\* ---------------------------------------------------------------------
\* Cohort.__getitem__
\* ---------------------------------------------------------------------
NoAccession == [AID |-> 0, name |-> None, metadata |-> {}, files |-> {}]
\* the Accession of the caller, as __getitem__ would build it
AsAccession(a) ==
    [AID |-> 0, name |-> a.name, metadata |-> a.metadata, files |-> Range(a.files)]

\* the dict built from the rows (key, val) of one AID, read in the order
\* of the unique index (AID, key, val): the last val of a key stays
metadata_of(d, AID) ==
    LET rows == {<<r[2], r[3]>> : r \in {x \in d.metadata : x[1] = AID}}
    IN  {p \in rows : \A q \in rows : q[1] = p[1] => StrRank(q[2]) <= StrRank(p[2])}

getitem(d, c, key) ==
    LET r    == get_AID(d, c, key)
        rows == {x \in d.accessions : x.AID = r.AID}
    IN  IF r.AID = NotFound
        THEN [exc |-> "NameError", cache |-> r.cache, acc |-> NoAccession]
        ELSE IF rows = {}
        \* fetchone() is None and cannot be unpacked
        THEN [exc |-> "TypeError", cache |-> r.cache, acc |-> NoAccession]
        ELSE [exc |-> "none", cache |-> r.cache,
              acc |-> [AID |-> r.AID,
                       name |-> (CHOOSE x \in rows : TRUE).name,
                       metadata |-> metadata_of(d, r.AID),
                       files |-> {f.path : f \in {x \in files_view(d) : x.AID = r.AID}}]]

\* ---------------------------------------------------------------------
\* Freezable.bulk_transaction
\* ---------------------------------------------------------------------
\* exceptions that are instances of Exception; KeyboardInterrupt is a
\* BaseException that is not
IsException(exc) == exc \in {"ConstraintError", "KeyError", "TypeError", "NameError"}

\* bulk_transaction with RELEASE in the except branch, before the ROLLBACK,
\* instead of in the finally branch
bulk_transaction_release_in_except(d0, body) ==
    IF body.exc = "none"
    THEN [db |-> body.db, exc |-> "none",
          events |-> <<"SAVEPOINT">>]
    ELSE IF IsException(body.exc)
    THEN [db |-> body.db, exc |-> body.exc,
          events |-> <<"SAVEPOINT", "RELEASE", "ROLLBACK TO">>]
    ELSE [db |-> body.db, exc |-> body.exc,
          events |-> <<"SAVEPOINT">>]

\* The context manager around a body that started from the tables d0 and
\* left them as body.db, raising body.exc ("none" when it returned).
\* events are the statements executed on the save-point, in order.
bulk_transaction(d0, body) ==
    IF body.exc = "none"
    THEN [db |-> body.db, exc |-> "none",
          events |-> <<"SAVEPOINT", "RELEASE">>]
    ELSE IF IsException(body.exc)
    THEN [db |-> d0, exc |-> body.exc,
          events |-> <<"SAVEPOINT", "ROLLBACK TO", "RELEASE">>]
    ELSE [db |-> body.db, exc |-> body.exc,
          events |-> <<"SAVEPOINT", "RELEASE">>]

\* A Python value handed to _dict is a record: t is the name of its class,
\* the other fields are what it holds.  A str holds a sequence of
\* characters; a float 0.d1d2... or 1.0 holds its units and the decimal
\* digits of its shortest repr.  Text in the table is a sequence of
\* characters.
PyNone == [t |-> "NoneType"]
PyInt(i) == [t |-> "int", int |-> i]
PyStr(chars) == [t |-> "str", chars |-> chars]
PyFloat(units, frac) == [t |-> "float", units |-> units, frac |-> frac]
PyBool(b) == [t |-> "bool", bool |-> b]
PyList == [t |-> "list", items |-> <<>>]

\* ---------------------------------------------------------------------
\* The record of a call
\* ---------------------------------------------------------------------
NoKey == [obj |-> FALSE, id |-> None]
NoObject == [name |-> <<>>, dtype |-> <<>>, parent |-> <<>>, basedir |-> <<>>]
NoFrame == [index_dtype |-> "None", index |-> <<>>, columns |-> {}]
NoCall ==
    [op         |-> "init",   \* the method called
     key        |-> NoKey,    \* its identifier argument
     names      |-> {},       \* the names of the Accessions handed in
     accession  |-> NoAccession,  \* add_accession: the Accession handed in
     linked     |-> {},       \* add_accessions: the pairs <<name, file>> handed in
     colname    |-> None,     \* alias_column: the column
     min_len    |-> 0,        \* alias_column: min_alias_length
     exc        |-> "none",   \* the exception the call raised
     body_exc   |-> "none",   \* the exception raised inside its with-block
     events     |-> <<>>,     \* the statements run on the save-point
     AID        |-> 0,        \* _get_AID: the AID returned
     accepted   |-> {},       \* alias_column: the rows <<alias, AID>> inserted
     warned     |-> {},       \* alias_column: the values warned as not unique
     skipped    |-> {},       \* alias_column: the values warned as too short
     n          |-> 0,        \* random_accessions: the number asked for
     replace    |-> FALSE,    \* random_accessions: with replacement
     sampled    |-> <<>>,     \* random_accessions: the rows [AID, name] yielded
     dkey       |-> None,     \* _dict: the key
     val        |-> PyNone,   \* _dict: the value handed in
     ret        |-> PyNone,   \* _dict: the value returned
     replaced   |-> {},       \* _dict: the rows of globals the call removed
     self       |-> NoObject, \* Freezable, _bcolz: the object
     existed    |-> FALSE,    \* Freezable: its directory was there before
     made       |-> {},       \* Freezable: the directories the call made
     tblname    |-> <<>>,     \* _bcolz: the name of the table
     df         |-> NoFrame,  \* _bcolz: the DataFrame handed in
     frame      |-> NoFrame,  \* _bcolz: the DataFrame returned
     substring  |-> <<>>,     \* search_names: the text searched for
     outer      |-> None,     \* nested: the name the outer block inserts
     inner      |-> None,     \* nested: the name the inner block inserts
     caught     |-> "none",   \* nested: the exception the outer body caught
     found      |-> [names |-> {}, aliases |-> {}]]  \* search_names: the result

\* A KeyboardInterrupt delivered inside a with-block is written intr = i:
\* it arrives when the i-th statement of the block has run; 0 is none.
Interrupt == "KeyboardInterrupt"

\* ---------------------------------------------------------------------
\* Cohort.add_accession
\* ---------------------------------------------------------------------
\* the with-block: what it leaves in the tables and the cache, and the
\* exception that escapes it
add_accession_body(d0, c0, accession, intr) ==
    LET d1   == insert_name(d0, accession.name)
        r    == get_AID(d1, c0, ObjKey(accession.name))
        items == SetToSeq(accession.metadata)
        m    == insert_metadata(d1,
                    [i \in DOMAIN items |-> <<r.AID, items[i][1], items[i][2]>>])
        d3   == insert_raw_files(m.db, accession.files)
    IN  IF intr = 1
        THEN [db |-> d1, cache |-> c0, exc |-> Interrupt]
        ELSE IF r.AID = NotFound
        THEN [db |-> d1, cache |-> r.cache, exc |-> "NameError"]
        ELSE IF m.exc # "none"
        THEN [db |-> m.db, cache |-> r.cache, exc |-> m.exc]
        ELSE IF intr = 2
        THEN [db |-> m.db, cache |-> r.cache, exc |-> Interrupt]
        ELSE IF intr = 3
        THEN [db |-> d3, cache |-> r.cache, exc |-> Interrupt]
        ELSE [db |-> d3, cache |-> r.cache, exc |-> "none"]

add_accession(accession, intr) ==
    \E body \in {add_accession_body(db, cache, accession, intr)} :
    \E bt \in {bulk_transaction(db, body)} :
    \* return self[accession]
    \E ret \in {getitem(bt.db, body.cache, ObjKey(accession.name))} :
        /\ db' = bt.db
        /\ cache' = IF bt.exc = "none" THEN ret.cache ELSE body.cache
        /\ last' = [NoCall EXCEPT
                        !.op = "add_accession",
                        !.names = {accession.name},
                        !.accession = AsAccession(accession),
                        !.body_exc = body.exc,
                        !.events = bt.events,
                        !.exc = IF bt.exc = "none" THEN ret.exc ELSE bt.exc]

\* ---------------------------------------------------------------------
\* Cohort.add_accessions
\* ---------------------------------------------------------------------
\* the dict as a set of items, with the item of key k set to v
DictSet(dict, k, v) == {p \in dict : p[1] # k} \cup {<<k, v>>}
DictHas(dict, k) == \E p \in dict : p[1] = k
DictGet(dict, k) == (CHOOSE p \in dict : p[1] = k)[2]

\* Cohort.__iter__ feeding Cohort._AID_mapping: self[name] for the rows
\* of accessions in turn, collecting {x.name: x['AID']}
RECURSIVE AID_mapping(_, _, _, _)
AID_mapping(d, c, rows, map) ==
    IF rows = <<>> THEN [exc |-> "none", cache |-> c, map |-> map]
    ELSE LET x == getitem(d, c, StrKey(Head(rows).name))
         IN  IF x.exc # "none"
             THEN [exc |-> x.exc, cache |-> x.cache, map |-> map]
             ELSE AID_mapping(d, x.cache, Tail(rows),
                              DictSet(map, x.acc.name, x.acc.AID))

\* the longest prefix of the requests whose Accession name is in the map:
\* the generator handed to executemany raises KeyError at the next one
RECURSIVE Mapped(_, _)
Mapped(reqs, map) ==
    IF reqs = <<>> THEN <<>>
    ELSE IF ~DictHas(map, Head(reqs)[1]) THEN <<>>
    ELSE <<Head(reqs)>> \o Mapped(Tail(reqs), map)

\* (name, key, val) for accession in accessions for (key, val) in metadata
metadata_requests(accessions) ==
    Flatten([i \in DOMAIN accessions |->
        LET items == SetToSeq(accessions[i].metadata)
        IN  [j \in DOMAIN items |-> <<accessions[i].name, items[j][1], items[j][2]>>]])

\* (name, file) for accession in accessions for file in accession.files
files_requests(accessions) ==
    Flatten([i \in DOMAIN accessions |->
        [j \in DOMAIN accessions[i].files |->
            <<accessions[i].name, accessions[i].files[j]>>]])

\* the two executemany statements that follow AID_map = self._AID_mapping:
\* d1 are the tables after the names were inserted and am is what the
\* property returned
add_accessions_executemany(d1, c0, am, accessions, intr) ==
    LET mreqs == metadata_requests(accessions)
        mok   == Mapped(mreqs, am.map)
        m     == insert_metadata(d1,
                    [i \in DOMAIN mok |->
                        <<DictGet(am.map, mok[i][1]), mok[i][2], mok[i][3]>>])
        freqs == files_requests(accessions)
        fok   == Mapped(freqs, am.map)
        d3    == insert_files(m.db,
                    [i \in DOMAIN fok |-> <<DictGet(am.map, fok[i][1]), fok[i][2]>>])
    IN  IF intr = 1
        THEN [db |-> d1, cache |-> c0, exc |-> Interrupt]
        ELSE IF am.exc # "none"
        THEN [db |-> d1, cache |-> am.cache, exc |-> am.exc]
        ELSE IF m.exc # "none"
        THEN [db |-> m.db, cache |-> am.cache, exc |-> m.exc]
        ELSE IF Len(mok) < Len(mreqs)
        THEN [db |-> m.db, cache |-> am.cache, exc |-> "KeyError"]
        ELSE IF intr = 2
        THEN [db |-> m.db, cache |-> am.cache, exc |-> Interrupt]
        ELSE IF Len(fok) < Len(freqs)
        THEN [db |-> d3, cache |-> am.cache, exc |-> "KeyError"]
        ELSE IF intr = 3
        THEN [db |-> d3, cache |-> am.cache, exc |-> Interrupt]
        ELSE [db |-> d3, cache |-> am.cache, exc |-> "none"]

\* the with-block: the names are inserted, the AID of every name is read
\* back, then the metadata and the files are written
add_accessions_body(d0, c0, accessions, intr) ==
    LET d1 == insert_names(d0, [i \in DOMAIN accessions |-> accessions[i].name])
    IN  add_accessions_executemany(d1, c0,
            AID_mapping(d1, c0, ByAID(d1.accessions), {}), accessions, intr)

\* return [self[x] for x in accessions]
RECURSIVE getitems(_, _, _)
getitems(d, c, accessions) ==
    IF accessions = <<>> THEN [exc |-> "none", cache |-> c]
    ELSE LET x == getitem(d, c, ObjKey(Head(accessions).name))
         IN  IF x.exc # "none"
             THEN [exc |-> x.exc, cache |-> x.cache]
             ELSE getitems(d, x.cache, Tail(accessions))

add_accessions(accessions, intr) ==
    \E body \in {add_accessions_body(db, cache, accessions, intr)} :
    \E bt \in {bulk_transaction(db, body)} :
    \E ret \in {getitems(bt.db, body.cache, accessions)} :
        /\ db' = bt.db
        /\ cache' = IF bt.exc = "none" THEN ret.cache ELSE body.cache
        /\ last' = [NoCall EXCEPT
                        !.op = "add_accessions",
                        !.names = {accessions[i].name : i \in DOMAIN accessions},
                        !.linked = Range(files_requests(accessions)),
                        !.body_exc = body.exc,
                        !.events = bt.events,
                        !.exc = IF bt.exc = "none" THEN ret.exc ELSE bt.exc]

\* ---------------------------------------------------------------------
\* Cohort.search_names, Cohort.names
\* ---------------------------------------------------------------------
\* Cohort.names is search_names('%'): the pattern '%%%' matches every
\* name and every alias
\* names without the aliases: SELECT name FROM accessions alone
names_of_accessions(d) == {r.name : r \in d.accessions}

names(d) == {r.name : r \in d.accessions} \cup {r.alias : r \in d.aliases}

\* ---------------------------------------------------------------------
\* Cohort.search_names
\* ---------------------------------------------------------------------
\* the characters of a name or alias of the model
Spell(s) ==
    CASE s = "a"  -> <<"a">>
      [] s = "bb" -> <<"b", "b">>
      [] s = "1"  -> <<"1">>
      [] OTHER    -> <<>>

\* the letters of the searches, in upper and in lower case
UpperCase == <<"A", "B">>
LowerCase == <<"a", "b">>
Fold(ch) ==
    IF \E i \in DOMAIN UpperCase : UpperCase[i] = ch
    THEN LowerCase[CHOOSE i \in DOMAIN UpperCase : UpperCase[i] = ch]
    ELSE ch

\* text LIKE pattern in sqlite: % stands for any run of characters, _ for
\* any one character, and letters match without regard to case
RECURSIVE like(_, _)
like(pattern, text) ==
    IF pattern = <<>> THEN text = <<>>
    ELSE IF Head(pattern) = "%"
    THEN \E k \in 0..Len(text) :
            like(Tail(pattern), SubSeq(text, k + 1, Len(text)))
    ELSE /\ text # <<>>
         /\ Head(pattern) = "_" \/ Fold(Head(pattern)) = Fold(Head(text))
         /\ like(Tail(pattern), Tail(text))

\* search_names(name): the names found, then the aliases found
search_names_fn(d, name) ==
    LET pattern == <<"%">> \o name \o <<"%">>
    IN  [names   |-> {r.name : r \in {x \in d.accessions :
                                         like(pattern, Spell(x.name))}},
         aliases |-> {r.alias : r \in {x \in d.aliases :
                                          like(pattern, Spell(x.alias))}}]

search_names(name) ==
    /\ db' = db
    /\ cache' = cache
    /\ last' = [NoCall EXCEPT !.op = "search_names", !.substring = name,
                    !.found = search_names_fn(db, name)]

\* ---------------------------------------------------------------------
\* Cohort.alias_column
\* ---------------------------------------------------------------------
\* the rows (val, AID) of SELECT val, AID FROM metadata WHERE key = ?
alias_rows(d, colname) == {<<r[3], r[1]>> : r \in {x \in d.metadata : x[2] = colname}}

\* the dicts {a: aid for a, aid in rows}: one AID stays for each val, the
\* one of the row fetched last; the order of the rows is sqlite's
alias_dicts(d, colname) ==
    LET rows == alias_rows(d, colname)
        vals == {r[1] : r \in rows}
    IN  {f \in [vals -> {r[2] : r \in rows}] : \A v \in vals : <<v, f[v]>> \in rows}

\* Counter([x for x in alias_dict.keys()])
alias_counts(alias_dict) ==
    [a \in DOMAIN alias_dict |-> Cardinality({x \in DOMAIN alias_dict : x = a})]

\* the loop over alias_counts: the values warned as not unique
not_unique(alias_dict, cur_names) ==
    {a \in DOMAIN alias_dict : alias_counts(alias_dict)[a] > 1 \/ a \in cur_names}

\* the values warned as too short
too_short(alias_dict, cur_names, min_alias_length) ==
    {a \in DOMAIN alias_dict \ not_unique(alias_dict, cur_names) :
        Len(a) < min_alias_length}

\* the rows appended to unique_aliases
unique_aliases(alias_dict, cur_names, min_alias_length) ==
    {<<a, alias_dict[a]>> : a \in
        (DOMAIN alias_dict \ not_unique(alias_dict, cur_names))
            \ too_short(alias_dict, cur_names, min_alias_length)}

\* INSERT INTO aliases (alias, AID) VALUES (?, ?) for the rows of the
\* executemany; alias is UNIQUE
insert_aliases(d, rows) ==
    IF \E r \in rows : \E x \in d.aliases : x.alias = r[1]
    THEN [db |-> d, exc |-> "ConstraintError"]
    ELSE [db |-> [d EXCEPT !.aliases = @ \cup
                    {[alias |-> r[1], AID |-> r[2]] : r \in rows}],
          exc |-> "none"]

alias_column_body(d0, alias_dict, cur_names, min_alias_length, intr) ==
    LET ins == insert_aliases(d0, unique_aliases(alias_dict, cur_names, min_alias_length))
    IN  IF ins.exc # "none" THEN ins
        ELSE IF intr = 1 THEN [db |-> ins.db, exc |-> Interrupt]
        ELSE ins

alias_column(colname, min_alias_length, intr) ==
    \E alias_dict \in alias_dicts(db, colname) :
    \E cur_names \in {names(db)} :
    \E body \in {alias_column_body(db, alias_dict, cur_names, min_alias_length, intr)} :
    \E bt \in {bulk_transaction(db, body)} :
    \E acc \in {unique_aliases(alias_dict, cur_names, min_alias_length)} :
            /\ db' = bt.db
            /\ cache' = cache
            /\ last' = [NoCall EXCEPT
                            !.op = "alias_column",
                            !.colname = colname,
                            !.min_len = min_alias_length,
                            !.body_exc = body.exc,
                            !.events = bt.events,
                            !.exc = bt.exc,
                            !.accepted = acc,
                            !.warned = not_unique(alias_dict, cur_names),
                            !.skipped = too_short(alias_dict, cur_names, min_alias_length)]

\* ---------------------------------------------------------------------
\* invalidates_cache: Cohort.drop_aliases, Cohort.__delitem__
\* ---------------------------------------------------------------------
\* the wrapper runs the method and then clears the cache of _get_AID; an
\* exception of the method leaves the wrapper before the clear
invalidates_cache(fn) ==
    IF fn.exc = "none"
    THEN [db |-> fn.db, cache |-> EmptyCache, exc |-> "none"]
    ELSE fn

\* DELETE FROM aliases
drop_aliases_fn(d, c) ==
    [db |-> [d EXCEPT !.aliases = {}], cache |-> c, exc |-> "none"]

drop_aliases ==
    \E w \in {invalidates_cache(drop_aliases_fn(db, cache))} :
        /\ db' = w.db
        /\ cache' = w.cache
        /\ last' = [NoCall EXCEPT !.op = "drop_aliases", !.exc = w.exc]

\* DELETE FROM accessions / metadata / aid_files WHERE AID = ?
delitem_fn(d, c, key) ==
    LET r == get_AID(d, c, key)
    IN  IF r.AID = NotFound
        THEN [db |-> d, cache |-> r.cache, exc |-> "NameError"]
        ELSE [db |-> [d EXCEPT
                        !.accessions = {x \in @ : x.AID # r.AID},
                        !.metadata   = {x \in @ : x[1] # r.AID},
                        !.aid_files  = {x \in @ : x.AID # r.AID}],
              cache |-> r.cache, exc |-> "none"]

delitem(key) ==
    \E w \in {invalidates_cache(delitem_fn(db, cache, key))} :
        /\ db' = w.db
        /\ cache' = w.cache
        /\ last' = [NoCall EXCEPT !.op = "delitem", !.key = key, !.exc = w.exc,
                                  !.AID = get_AID(db, cache, key).AID]

\* ---------------------------------------------------------------------
\* Reads that fill the cache
\* ---------------------------------------------------------------------
\* a call of _get_AID
resolve(key) ==
    \E r \in {get_AID(db, cache, key)} :
        /\ db' = db
        /\ cache' = r.cache
        /\ last' = [NoCall EXCEPT !.op = "resolve", !.key = key, !.AID = r.AID,
                        !.exc = IF r.AID = NotFound THEN "NameError" ELSE "none"]

\* a call of __getitem__
get(key) ==
    \E r \in {getitem(db, cache, key)} :
        /\ db' = db
        /\ cache' = r.cache
        /\ last' = [NoCall EXCEPT !.op = "getitem", !.key = key, !.exc = r.exc,
                        !.AID = r.acc.AID]

\* ---------------------------------------------------------------------
\* Freezable.bulk_transaction entered inside a bulk_transaction
\* ---------------------------------------------------------------------
\* The connection while with-blocks are open: the tables, the stack of
\* the save-points (each the tables as they were when it was set) and the
\* statements executed so far.
Connection(d) == [db |-> d, savepoints |-> <<>>, events |-> <<>>]

\* the statements of bulk_transaction before the yield.  sqlite is in
\* autocommit outside a save-point; inside one it refuses
\* PRAGMA synchronous ("Safety level may not be changed inside a
\* transaction"), and the generator raises before its try statement.
bulk_transaction_enter(conn) ==
    IF conn.savepoints # <<>>
    THEN [conn |-> [conn EXCEPT !.events = Append(@, "PRAGMA")],
          exc  |-> "SQLError"]
    ELSE [conn |-> [conn EXCEPT
                        !.events = @ \o <<"PRAGMA", "PRAGMA", "SAVEPOINT">>,
                        !.savepoints = Append(@, conn.db)],
          exc  |-> "none"]

\* the except and finally branches of bulk_transaction, for a body that
\* raised exc ("none" when it returned).  ROLLBACK TO and RELEASE act on
\* the innermost save-point of the name.
bulk_transaction_exit(conn, exc) ==
    LET top    == conn.savepoints[Len(conn.savepoints)]
        undone == IF IsException(exc)
                  THEN [conn EXCEPT !.db = top,
                                    !.events = Append(@, "ROLLBACK TO")]
                  ELSE conn
    IN  [undone EXCEPT !.events = Append(@, "RELEASE"),
                       !.savepoints = SubSeq(@, 1, Len(@) - 1)]

\* The caller's code
\*     with x.bulk_transaction() as cur:
\*         cur.execute(INSERT OR IGNORE INTO accessions ... outer)
\*         try:
\*             with x.bulk_transaction() as cur:
\*                 cur.execute(INSERT OR IGNORE INTO accessions ... inner)
\*                 raise KeyError
\*         except Exception: pass
\* caught is the exception the outer body caught.
nested_fn(d, outer, inner) ==
    LET o1 == bulk_transaction_enter(Connection(d)).conn
        o2 == [o1 EXCEPT !.db = insert_name(@, outer)]
        i1 == bulk_transaction_enter(o2)
        i2 == [i1.conn EXCEPT !.db = insert_name(@, inner)]
        o3 == IF i1.exc # "none" THEN i1.conn
              ELSE bulk_transaction_exit(i2, "KeyError")
    IN  [conn   |-> bulk_transaction_exit(o3, "none"),
         caught |-> IF i1.exc # "none" THEN i1.exc ELSE "KeyError"]

nested(outer, inner) ==
    \E r \in {nested_fn(db, outer, inner)} :
        /\ db' = r.conn.db
        /\ cache' = cache
        /\ last' = [NoCall EXCEPT !.op = "nested", !.outer = outer,
                        !.inner = inner, !.events = r.conn.events,
                        !.caught = r.caught]

\* ---------------------------------------------------------------------
\* _get_AID and __delitem__ called by two tasks
\* ---------------------------------------------------------------------
\* One task reads and one writes.  A call of _get_AID looks the key up in
\* the lru_cache, runs the body on a miss and memoizes what it returned;
\* a call of __delitem__ resolves its key, executes the DELETE statements
\* and then, in the wrapper, clears the lru_cache.  The other task may
\* run between these steps.
Idle == [pc |-> "idle", key |-> NoKey, AID |-> 0]
NoTasks ==
    [reader  |-> Idle,    \* the call of _get_AID in flight
     writer  |-> Idle,    \* the call of __delitem__ in flight
     deleted |-> {}]      \* the AIDs deleted by the calls that returned

\* _get_AID(key) up to the return of its body
get_AID_lookup(key) ==
    /\ tasks.reader.pc = "idle"
    /\ db' = db
    /\ cache' = cache
    /\ \E AID \in {IF cache[key] # 0 THEN cache[key]
                    ELSE get_AID_body(db, key.id)} :
        IF cache[key] # 0 \/ AID = NotFound
        THEN /\ tasks' = tasks
             /\ last' = [NoCall EXCEPT !.op = "resolve", !.key = key,
                             !.AID = AID,
                             !.exc = IF AID = NotFound THEN "NameError"
                                     ELSE "none"]
        ELSE /\ tasks' = [tasks EXCEPT !.reader =
                                [pc |-> "returned", key |-> key, AID |-> AID]]
             /\ last' = last

\* the lru_cache memoizes what the body returned
get_AID_memoize ==
    /\ tasks.reader.pc = "returned"
    /\ db' = db
    /\ cache' = [cache EXCEPT ![tasks.reader.key] = tasks.reader.AID]
    /\ tasks' = [tasks EXCEPT !.reader = Idle]
    /\ last' = [NoCall EXCEPT !.op = "resolve", !.key = tasks.reader.key,
                    !.AID = tasks.reader.AID]

\* __delitem__(key): AID = self._get_AID(name)
delitem_resolve(key) ==
    /\ tasks.writer.pc = "idle"
    /\ db' = db
    /\ \E r \in {get_AID(db, cache, key)} :
        /\ cache' = r.cache
        /\ IF r.AID = NotFound
           THEN /\ tasks' = tasks
                /\ last' = [NoCall EXCEPT !.op = "delitem", !.key = key,
                                !.exc = "NameError"]
           ELSE /\ tasks' = [tasks EXCEPT !.writer =
                                [pc |-> "resolved", key |-> key, AID |-> r.AID]]
                /\ last' = last

\* DELETE FROM accessions / metadata / aid_files WHERE AID = ?
delete_rows(d, AID) ==
    [d EXCEPT !.accessions = {x \in @ : x.AID # AID},
              !.metadata   = {x \in @ : x[1] # AID},
              !.aid_files  = {x \in @ : x.AID # AID}]

delitem_execute ==
    /\ tasks.writer.pc = "resolved"
    /\ db' = delete_rows(db, tasks.writer.AID)
    /\ cache' = cache
    /\ tasks' = [tasks EXCEPT !.writer.pc = "executed"]
    /\ last' = last

\* the wrapper of invalidates_cache: self._get_AID.cache_clear()
delitem_cache_clear ==
    /\ tasks.writer.pc = "executed"
    /\ db' = db
    /\ cache' = EmptyCache
    /\ tasks' = [tasks EXCEPT !.writer = Idle,
                              !.deleted = @ \cup {tasks.writer.AID}]
    /\ last' = [NoCall EXCEPT !.op = "delitem", !.key = tasks.writer.key,
                    !.AID = tasks.writer.AID]

\* ---------------------------------------------------------------------
\* Two Cohorts in one process
\* ---------------------------------------------------------------------
\* lru_cache wraps the function _get_AID of the class: the process has one
\* cache, whose keys are the pairs (self, name).  cache holds the entries
\* of the first Cohort and peer.cache those of the second;
\* self._get_AID.cache_clear() clears the one cache, so both.
NoPeer == [db |-> EmptyDB, cache |-> EmptyCache]

\* add_accession on the second Cohort
peer_add_accession(accession) ==
    \E body \in {add_accession_body(peer.db, peer.cache, accession, 0)} :
    \E bt \in {bulk_transaction(peer.db, body)} :
    \E ret \in {getitem(bt.db, body.cache, ObjKey(accession.name))} :
        /\ peer' = [db |-> bt.db,
                    cache |-> IF bt.exc = "none" THEN ret.cache ELSE body.cache]
        /\ UNCHANGED <<db, cache>>
        /\ last' = [NoCall EXCEPT !.op = "peer_add_accession",
                        !.names = {accession.name},
                        !.exc = IF bt.exc = "none" THEN ret.exc ELSE bt.exc]

\* _get_AID on the second Cohort
peer_resolve(key) ==
    \E r \in {get_AID(peer.db, peer.cache, key)} :
        /\ peer' = [peer EXCEPT !.cache = r.cache]
        /\ UNCHANGED <<db, cache>>
        /\ last' = [NoCall EXCEPT !.op = "peer_resolve", !.key = key,
                        !.AID = r.AID,
                        !.exc = IF r.AID = NotFound THEN "NameError" ELSE "none"]

\* the cache_clear of the wrapper, on the entries of the second Cohort
cache_clear_peer(exc) ==
    peer' = [peer EXCEPT !.cache = IF exc = "none" THEN EmptyCache ELSE @]

\* __delitem__ on the first Cohort
delitem_peers(key) ==
    /\ delitem(key)
    /\ cache_clear_peer(last'.exc)

\* drop_aliases on the first Cohort
drop_aliases_peers ==
    /\ drop_aliases
    /\ cache_clear_peer(last'.exc)

\* ---------------------------------------------------------------------
\* Cohort.__len__, Cohort.__iter__, Cohort.__contains__
\* ---------------------------------------------------------------------
len(d) == Cardinality(d.accessions)

\* the names of the Accessions that iteration yields
iter_names(d, c) == {p[1] : p \in AID_mapping(d, c, ByAID(d.accessions), {}).map}

\* NameError is caught and reported as False
contains(d, c, key) == get_AID(d, c, key).AID # NotFound

\* ---------------------------------------------------------------------
\* Freezable._dict and Freezable.guess_type: the key-value store
\* ---------------------------------------------------------------------
\* the last component of the class name of the object
guess_type(object) == object.t

DigitChars == <<"0", "1", "2", "3", "4", "5", "6", "7", "8", "9">>
DigitOf(ch) == (CHOOSE i \in DOMAIN DigitChars : DigitChars[i] = ch) - 1

\* sqlite renders an INTEGER bound to a TEXT column in decimal
RECURSIVE IntToText(_)
IntToText(i) ==
    IF i < 0 THEN <<"-">> \o IntToText(0 - i)
    ELSE IF i < 10 THEN <<DigitChars[i + 1]>>
    ELSE IntToText(i \div 10) \o <<DigitChars[(i % 10) + 1]>>

\* the digits of a decimal fraction with one added in the last place; the
\* empty sequence when the carry leaves the fraction
RECURSIVE Increment(_)
Increment(frac) ==
    IF frac = <<>> THEN <<>>
    ELSE IF frac[Len(frac)] < 9
    THEN [frac EXCEPT ![Len(frac)] = @ + 1]
    ELSE LET up == Increment(SubSeq(frac, 1, Len(frac) - 1))
         IN  IF up = <<>> THEN <<>> ELSE up \o <<0>>

RECURSIVE StripZeros(_)
StripZeros(frac) ==
    IF frac # <<>> /\ frac[Len(frac)] = 0
    THEN StripZeros(SubSeq(frac, 1, Len(frac) - 1))
    ELSE frac

\* sqlite renders a REAL bound to a TEXT column with 15 significant
\* digits
SignificantDigits == 15
RealToText(f) ==
    LET kept    == SubSeq(f.frac, 1, SignificantDigits)
        rounded == IF Len(f.frac) <= SignificantDigits THEN f.frac
                   ELSE IF f.frac[SignificantDigits + 1] < 5 THEN kept
                   ELSE Increment(kept)
        carry   == Len(f.frac) > SignificantDigits /\ rounded = <<>>
        digits  == StripZeros(rounded)
    IN  <<DigitChars[(IF carry THEN f.units + 1 ELSE f.units) + 1], ".">> \o
        (IF digits = <<>> THEN <<"0">>
         ELSE [i \in DOMAIN digits |-> DigitChars[digits[i] + 1]])

\* the text sqlite stores in the column val TEXT for the value bound
ToText(val) ==
    CASE val.t = "int"   -> IntToText(val.int)
      [] val.t = "float" -> RealToText(val)
      [] OTHER           -> val.chars

\* Python int(text) on a decimal text
RECURSIVE DigitsToInt(_)
DigitsToInt(text) ==
    IF text = <<>> THEN 0
    ELSE 10 * DigitsToInt(SubSeq(text, 1, Len(text) - 1)) + DigitOf(text[Len(text)])

TextToInt(text) ==
    IF text # <<>> /\ Head(text) = "-"
    THEN 0 - DigitsToInt(Tail(text))
    ELSE DigitsToInt(text)

\* Python float(text) on a text "d.ddd"
TextToReal(text) ==
    LET digits == SubSeq(text, 3, Len(text))
    IN  PyFloat(DigitOf(text[1]),
                StripZeros([i \in DOMAIN digits |-> DigitOf(digits[i])]))

\* INSERT OR IGNORE INTO globals (key, val, type) VALUES (?, ?, ?)
insert_global_or_ignore(d, key, val, val_type) ==
    IF \E r \in d.globals : r.key = key
    THEN d
    ELSE [d EXCEPT !.globals = @ \cup
                        {[key |-> key, val |-> ToText(val), type |-> val_type]}]

\* INSERT OR REPLACE INTO globals (key, val, type) VALUES (?, ?, ?)
\* under the unique index uniqkey on key
insert_global(d, key, val, val_type) ==
    [d EXCEPT !.globals = {r \in @ : r.key # key} \cup
                            {[key |-> key, val |-> ToText(val), type |-> val_type]}]

\* the error _dict raises from its except TypeError branch
NotInDatabase == "ValueError: not in database"

\* _dict(key, val): what it leaves in the tables, what it raises and what
\* it returns.  A val of None reads the key.
dict_call(d, key, val) ==
    IF val # PyNone
    THEN IF guess_type(val) \notin {"int", "float", "str"}
         \* the TypeError raised here is caught by the except branch
         THEN [db |-> d, exc |-> NotInDatabase, ret |-> PyNone]
         ELSE [db |-> insert_global(d, key, val, guess_type(val)),
               exc |-> "none", ret |-> PyNone]
    ELSE LET rows == {r \in d.globals : r.key = key}
             row  == CHOOSE r \in rows : TRUE
         IN  IF rows = {}
             \* fetchone() is None and cannot be unpacked
             THEN [db |-> d, exc |-> NotInDatabase, ret |-> PyNone]
             ELSE [db |-> d, exc |-> "none",
                   ret |-> CASE row.type = "int"   -> PyInt(TextToInt(row.val))
                             [] row.type = "float" -> TextToReal(row.val)
                             [] row.type = "str"   -> PyStr(row.val)
                             [] OTHER              -> PyNone]

dict(key, val) ==
    \E r \in {dict_call(db, key, val)} :
        /\ db' = r.db
        /\ cache' = cache
        /\ last' = [NoCall EXCEPT !.op = "dict", !.dkey = key, !.val = val,
                        !.exc = r.exc, !.ret = r.ret,
                        !.replaced = db.globals \ r.db.globals]

\* ---------------------------------------------------------------------
\* Freezable.__init__: the directory of an object
\* ---------------------------------------------------------------------
\* A path is the sequence of its components below
\* cf.options.basedir/databases, a component a sequence of characters.
EmptyFS ==
    [dirs   |-> {},    \* the paths of the directories
     tables |-> {}]    \* rows [path, table]: what bcolz stored at path

\* the dtype and the name of an object are texts of letters and dots
Parts == {<<"a">>, <<"a", ".", "a">>}
\* dtype=None, and the name of the class used in its place
NoDtype == <<>>
ClassName == <<"F">>
\* parent=None: the object lies straight under the root
NoParent == <<>>

\* f'{dtype}.{name}'
dotted(dtype, name) == dtype \o <<".">> \o name

\* os.makedirs(path, exist_ok=True)
makedirs(f, path) ==
    [f EXCEPT !.dirs = @ \cup {SubSeq(path, 1, k) : k \in 1..Len(path)}]

\* Freezable(name, dtype, parent): the object and the directories after it
freezable_call(f, name, dtype, parent) ==
    LET m80_dtype == IF dtype = NoDtype THEN ClassName ELSE dtype
        basedir   == parent \o <<dotted(m80_dtype, name)>>
    IN  [fs   |-> makedirs(f, basedir),
         self |-> [name |-> name, dtype |-> m80_dtype, parent |-> parent,
                   basedir |-> basedir]]

freezable(name, dtype, parent) ==
    \E r \in {freezable_call(fs, name, dtype, parent)} :
        /\ fs' = r.fs
        /\ objects' = objects \cup {r.self}
        /\ last' = [NoCall EXCEPT !.op = "Freezable", !.self = r.self,
                        !.existed = r.self.basedir \in fs.dirs,
                        !.made = r.fs.dirs \ fs.dirs]

\* ---------------------------------------------------------------------
\* Freezable._get_dbpath, Freezable._bcolz: the column store
\* ---------------------------------------------------------------------
\* the attributes Freezable.__init__ sets on the object
Attributes ==
    {"_m80_name", "_m80_dtype", "_children", "_basedir", "_parent", "_db"}

\* _get_dbpath(extension) with dtype and dbname left to their defaults
get_dbpath(self, extension) ==
    IF "_m80_type" \notin Attributes
    THEN [exc |-> "AttributeError", path |-> <<>>]
    ELSE [exc |-> "none",
          path |-> self.basedir \o <<dotted(self.dtype, self.name), extension>>]

\* A DataFrame: the dtype of its index, the labels of its rows and its
\* columns, rows [name, vals]; labels and cells are written as texts.
DataFrame(index_dtype, index, columns) ==
    [index_dtype |-> index_dtype, index |-> index, columns |-> columns]
\* pd.DataFrame()
EmptyFrame == DataFrame("object", <<>>, {})
empty(df) == df.index = <<>> \/ df.columns = {}

\* bcz.ctable.fromdataframe(df): the columns, without the index
fromdataframe(df) == [len |-> Len(df.index), columns |-> df.columns]
\* bcz.fromiter((), dtype=np.int32, count=0)
fromiter == [len |-> 0, columns |-> {}]

\* ctable.todataframe(), then the idx column, if any, made the index
todataframe(table) ==
    LET idx == {c \in table.columns : c.name = "idx"}
    IN  IF idx = {}
        \* a RangeIndex: row i has the label i - 1 (fewer than ten rows)
        THEN DataFrame("int64", [i \in 1..table.len |-> IntToText(i - 1)[1]],
                       table.columns)
        ELSE DataFrame("object", (CHOOSE c \in idx : TRUE).vals,
                       table.columns \ idx)

\* _bcolz(tblname, df) on the object self: a df of None reads the table
bcolz_call(f, self, tblname, df) ==
    \* m80type = self._m80_type
    IF "_m80_type" \notin Attributes
    THEN [fs |-> f, exc |-> "AttributeError", ret |-> NoFrame]
    ELSE
    LET dbpath == get_dbpath(self, <<"b", "c", "z">>)
        f1     == makedirs(f, dbpath.path)
        path   == dbpath.path \o <<tblname>>
        stored == {r \in f1.tables : r.path = path}
        kept   == IF df.index_dtype # "int64" /\ ~ empty(df)
                  THEN [df EXCEPT !.columns =
                            {c \in @ : c.name # "idx"} \cup
                            {[name |-> "idx", vals |-> df.index]}]
                  ELSE df
        table  == IF empty(kept) THEN fromiter ELSE fromdataframe(kept)
    IN  IF dbpath.exc # "none"
        THEN [fs |-> f, exc |-> dbpath.exc, ret |-> NoFrame]
        ELSE IF df = NoFrame
        THEN IF stored = {}
             THEN [fs |-> f1, exc |-> "IOError", ret |-> NoFrame]
             ELSE [fs |-> f1, exc |-> "none",
                   ret |-> LET table0 == (CHOOSE r \in stored : TRUE).table
                           IN  IF table0.len = 0 THEN EmptyFrame
                               ELSE todataframe(table0)]
        ELSE [fs |-> [f1 EXCEPT !.tables = (@ \ stored) \cup
                                    {[path |-> path, table |-> table]}],
              exc |-> "none", ret |-> NoFrame]

bcolz(self, tblname, df) ==
    \E r \in {bcolz_call(fs, self, tblname, df)} :
        /\ fs' = r.fs
        /\ objects' = objects
        /\ last' = [NoCall EXCEPT !.op = "bcolz", !.self = self,
                        !.tblname = tblname, !.df = df,
                        !.exc = r.exc, !.frame = r.ret]

\* ---------------------------------------------------------------------
\* Cohort.random_accession, Cohort.random_accessions
\* ---------------------------------------------------------------------
\* what one call of random_accession can do: ORDER BY RANDOM() LIMIT 1
\* picks any row, and self[name] is returned; on an empty table fetchone()
\* is None and None[0] raises TypeError
random_accession(d, c) ==
    IF d.accessions = {}
    THEN {[exc |-> "TypeError", cache |-> c, acc |-> NoAccession]}
    ELSE {getitem(d, c, StrKey(r.name)) : r \in d.accessions}

\* the generator (self.random_accession() for _ in range(n)), consumed:
\* every way the n calls can go, with the Accessions yielded before an
\* exception ended it
RECURSIVE random_with_replacement(_, _, _)
random_with_replacement(d, c, n) ==
    IF n = 0 THEN {[exc |-> "none", cache |-> c, sampled |-> <<>>]}
    ELSE UNION {
            IF x.exc # "none"
            THEN {[exc |-> x.exc, cache |-> x.cache, sampled |-> <<>>]}
            ELSE {[y EXCEPT !.sampled =
                        <<[AID |-> x.acc.AID, name |-> x.acc.name]>> \o @] :
                    y \in random_with_replacement(d, x.cache, n - 1)} :
            x \in random_accession(d, c)}

\* the rows (name, ) of SELECT name from accessions ORDER BY RANDOM()
\* LIMIT n: n of the names (all of them when there are fewer), in any order
random_rows(d, n) ==
    LET S == {r.name : r \in d.accessions}
        k == IF n < Cardinality(S) THEN n ELSE Cardinality(S)
    IN  {s \in [1..k -> S] : \A i \in 1..k : \A j \in 1..k : s[i] = s[j] => i = j}

\* the generator (self[name] for (name, ) in rows), consumed
RECURSIVE random_without_replacement(_, _, _)
random_without_replacement(d, c, rows) ==
    IF rows = <<>> THEN [exc |-> "none", cache |-> c, sampled |-> <<>>]
    ELSE LET x == getitem(d, c, StrKey(Head(rows)))
         IN  IF x.exc # "none"
             THEN [exc |-> x.exc, cache |-> x.cache, sampled |-> <<>>]
             ELSE [random_without_replacement(d, x.cache, Tail(rows)) EXCEPT
                      !.sampled = <<[AID |-> x.acc.AID, name |-> x.acc.name]>> \o @]

\* random_accessions(n, replace), with the generator it returns consumed
random_accessions(n, replace) ==
    \E r \in (IF replace
              THEN random_with_replacement(db, cache, n)
              ELSE IF n > len(db)
              THEN {[exc |-> "ValueError", cache |-> cache, sampled |-> <<>>]}
              ELSE {random_without_replacement(db, cache, rows) :
                        rows \in random_rows(db, n)}) :
        /\ db' = db
        /\ cache' = r.cache
        /\ last' = [NoCall EXCEPT !.op = "random_accessions", !.n = n,
                        !.replace = replace, !.exc = r.exc, !.sampled = r.sampled]

\* ---------------------------------------------------------------------
\* The catalog
\* ---------------------------------------------------------------------
Init ==
    /\ db = EmptyDB
    /\ cache = EmptyCache
    /\ last = NoCall
    /\ calls = 0
    /\ fs = EmptyFS
    /\ objects = {}
    /\ tasks = NoTasks
    /\ peer = NoPeer

\* one more call is made on the open Cohort, from start to end
Counted(call) ==
    /\ calls < MaxCalls
    /\ calls' = calls + 1
    /\ UNCHANGED <<fs, objects, tasks, peer>>
    /\ call

\* one more call is started by a task
Started(call) ==
    /\ calls < MaxCalls
    /\ calls' = calls + 1
    /\ UNCHANGED <<fs, objects, peer>>
    /\ call

\* a call in flight goes on
Continued(call) ==
    /\ UNCHANGED <<calls, fs, objects, peer>>
    /\ call

\* one more call is made in a process with a second Cohort
CountedPeers(call) ==
    /\ calls < MaxCalls
    /\ calls' = calls + 1
    /\ UNCHANGED <<fs, objects, tasks>>
    /\ call

\* one more call is made that constructs a Freezable or uses its column
\* store
CountedFS(call) ==
    /\ calls < MaxCalls
    /\ calls' = calls + 1
    /\ UNCHANGED <<db, cache, tasks, peer>>
    /\ call

\* The catalog in use: Accessions are added, aliased, looked up and
\* deleted; no call fails inside its transaction.
Next ==
    \/ \E accession \in Described : Counted(add_accession(accession, 0))
    \/ \E accessions \in Batches(Described) : Counted(add_accessions(accessions, 0))
    \/ \E colname \in Cols : \E m \in MinLens : Counted(alias_column(colname, m, 0))
    \/ Counted(drop_aliases)
    \/ \E key \in Identifiers : Counted(delitem(key))
    \/ \E key \in Identifiers : Counted(resolve(key))
    \/ \E key \in Identifiers : Counted(get(key))
    \/ \E n \in 0..MaxSample : \E replace \in BOOLEAN :
            Counted(random_accessions(n, replace))

Spec == Init /\ [][Next]_vars

\* The catalog when transactions fail: a metadata value of None violates
\* NOT NULL, and a KeyboardInterrupt may arrive after the second statement
\* of a with-block (after the first one in alias_column).  Accessions are
\* looked up and deleted in between.
NextTxn ==
    \/ \E accession \in Flawed : \E intr \in {0, 2} :
            Counted(add_accession(accession, intr))
    \/ \E accessions \in Batches(Flawed) : \E intr \in {0, 2} :
            Counted(add_accessions(accessions, intr))
    \/ \E colname \in Cols : \E intr \in {0, 1} :
            Counted(alias_column(colname, 1, intr))
    \/ \E key \in Identifiers : Counted(resolve(key))
    \/ \E key \in Identifiers : Counted(delitem(key))
    \/ \E n \in 0..MaxSample : \E replace \in BOOLEAN :
            Counted(random_accessions(n, replace))

SpecTxn == Init /\ [][NextTxn]_vars

\* The catalog with files: Accessions are added with their files, read
\* back and deleted.
NextFiles ==
    \/ \E accession \in Filed : Counted(add_accession(accession, 0))
    \/ \E accessions \in Batches(Filed) : Counted(add_accessions(accessions, 0))
    \/ \E key \in Identifiers : Counted(delitem(key))
    \/ \E key \in Identifiers : Counted(get(key))

SpecFiles == Init /\ [][NextFiles]_vars

\* The key-value store: values are set and read under two keys.  The
\* values are ints, strs (the empty one, one that reads as a number), a
\* float of one digit, a float of seventeen, a bool and a list.
DictKeys == {"x", "y"}
DictVals ==
    {PyInt(0), PyInt(12), PyInt(0 - 3),
     PyStr(<<>>), PyStr(<<"1", "2">>), PyStr(<<"a">>),
     PyFloat(0, <<5>>),
     PyFloat(0, <<3, 0, 0, 0, 0, 0, 0, 0, 0, 0, 0, 0, 0, 0, 0, 0, 4>>),
     PyBool(TRUE), PyList}

NextDict ==
    \/ \E key \in DictKeys : \E val \in DictVals : Counted(dict(key, val))
    \/ \E key \in DictKeys : Counted(dict(key, PyNone))

SpecDict == Init /\ [][NextDict]_vars

\* Objects are constructed at the root and under one another, and tables
\* are put into and read from their column stores.
Frames ==
    {EmptyFrame,
     DataFrame("int64", <<"0", "1">>, {[name |-> "c", vals |-> <<"7", "8">>]}),
     DataFrame("int64", <<"5", "3">>, {[name |-> "c", vals |-> <<"7", "8">>]}),
     DataFrame("object", <<"r", "s">>, {[name |-> "c", vals |-> <<"7", "8">>]}),
     DataFrame("object", <<"s">>, {[name |-> "c", vals |-> <<"9">>]})}
TableNames == {<<"t">>}

NextFS ==
    \/ \E name \in Parts : \E dtype \in Parts \cup {NoDtype} :
       \E parent \in {o.basedir : o \in objects} \cup {NoParent} :
            CountedFS(freezable(name, dtype, parent))
    \/ \E self \in objects : \E tblname \in TableNames : \E df \in Frames :
            CountedFS(bcolz(self, tblname, df))
    \/ \E self \in objects : \E tblname \in TableNames :
            CountedFS(bcolz(self, tblname, NoFrame))

SpecFS == Init /\ [][NextFS]_vars

\* The catalog searched: Accessions are added and aliased, and names are
\* searched for by texts of letters in both cases, digits, % and _.
Searches ==
    {<<>>, <<"a">>, <<"A">>, <<"b">>, <<"b", "b">>, <<"B", "b">>,
     <<"b", "b", "b">>, <<"1">>, <<"_">>, <<"%">>}

NextSearch ==
    \/ \E accession \in Described : Counted(add_accession(accession, 0))
    \/ \E colname \in Cols : Counted(alias_column(colname, 1, 0))
    \/ \E name \in Searches : Counted(search_names(name))

SpecSearch == Init /\ [][NextSearch]_vars

\* The catalog used by two tasks: Accessions are added, then one task
\* deletes while the other resolves, each call step by step.
NextTasks ==
    \/ \E accession \in Described :
            /\ tasks = NoTasks /\ tasks.deleted = {}
            /\ Counted(add_accession(accession, 0))
    \/ \E key \in Identifiers : Started(get_AID_lookup(key))
    \/ Continued(get_AID_memoize)
    \/ \E key \in Identifiers : Started(delitem_resolve(key))
    \/ Continued(delitem_execute)
    \/ Continued(delitem_cache_clear)

SpecTasks == Init /\ [][NextTasks]_vars

\* The catalog with a block inside a block: Accessions are added and
\* deleted, and names are inserted by two nested blocks of which the
\* inner one fails.
NextNested ==
    \/ \E accession \in Described : Counted(add_accession(accession, 0))
    \/ \E key \in Identifiers : Counted(delitem(key))
    \/ \E outer \in Names : \E inner \in Names \ {outer} :
            Counted(nested(outer, inner))

SpecNested == Init /\ [][NextNested]_vars

\* Two Cohorts in one process: Accessions are added to both and resolved
\* in both, and the first one deletes and drops its aliases.
NextPeers ==
    \/ \E accession \in Described : Counted(add_accession(accession, 0))
    \/ \E accession \in Described : CountedPeers(peer_add_accession(accession))
    \/ \E key \in Identifiers : Counted(resolve(key))
    \/ \E key \in Identifiers : CountedPeers(peer_resolve(key))
    \/ \E key \in Identifiers : CountedPeers(delitem_peers(key))
    \/ CountedPeers(drop_aliases_peers)

SpecPeers == Init /\ [][NextPeers]_vars

\* ---------------------------------------------------------------------
\* Properties
\* ---------------------------------------------------------------------
Transactional == {"add_accession", "add_accessions", "alias_column"}

\* C1: in every state reached by catalog operations interleaved with
\* resolve calls, each memoized entry identifier -> AID equals what the
\* body of _get_AID (name, then alias, then AID) returns on the current
\* tables.
C1_CacheCoherent ==
    \A key \in Keys :
        cache[key] # 0 => cache[key] = get_AID_body(db, key.id)

\* C2: once delete(name) has returned for a name that resolved, a
\* resolve(name) fails with NameError: it returns no AID at all.
C2_DeletedNotFound ==
    (last.op = "delitem" /\ last.exc = "none")
        => get_AID(db, cache, last.key).AID = NotFound

\* C3: when add_accessions raises an exception inside its transaction,
\* then for every name of the batch that was absent before the call the
\* length is unchanged, iteration does not yield the name, and resolve,
\* membership and get of the name report not found.
C3_FailedBatchInvisible ==
    [][(last'.op = "add_accessions" /\ IsException(last'.body_exc)) =>
        \A n \in last'.names :
            (\A r \in db.accessions : r.name # n) =>
                /\ len(db') = len(db)
                /\ n \notin iter_names(db', cache')
                /\ get_AID(db', cache', StrKey(n)).AID = NotFound
                /\ ~contains(db', cache', StrKey(n))
                /\ getitem(db', cache', StrKey(n)).exc = "NameError"]_vars

\* the number of times the statement e was run on the save-point
Times(events, e) == Cardinality({i \in DOMAIN events : events[i] = e})

\* C4: every execution of the bulk-transaction block opens one save-point
\* and releases it exactly once, as its last statement; a body that
\* returns is released without a rollback, and a body that raises an
\* Exception is rolled back to the save-point, then released, and the
\* caller receives the exception of the body.
C4_SavepointReleasedOnce ==
    last.op \in Transactional =>
        /\ Times(last.events, "SAVEPOINT") = 1
        /\ Times(last.events, "RELEASE") = 1
        /\ Head(last.events) = "SAVEPOINT"
        /\ last.events[Len(last.events)] = "RELEASE"
        /\ last.body_exc = "none" => last.events = <<"SAVEPOINT", "RELEASE">>
        /\ IsException(last.body_exc) =>
                /\ last.events = <<"SAVEPOINT", "ROLLBACK TO", "RELEASE">>
                /\ last.exc = last.body_exc

\* a transaction whose body raised an Exception has run
C4_Witness ==
    /\ last.op = "add_accessions"
    /\ last.body_exc = "ConstraintError"
    /\ last.exc = "ConstraintError"
    /\ Len(last.events) = 3

\* the rows of the tables, without the AUTOINCREMENT counter
Rows(d) == [d EXCEPT !.seq = 0]

\* C5: whatever escapes a bulk-transaction block, an Exception or a
\* KeyboardInterrupt, the rows of the tables after the block are the rows
\* at its entry.
C5_EscapeUndoesWrites ==
    [][(last'.op \in Transactional /\ last'.body_exc # "none")
            => Rows(db') = Rows(db)]_vars

\* C6: after add(accession), get(accession.name) returns the metadata of
\* the Accession and, as a set, its files.
C6_AddGetRoundTrip ==
    (last.op = "add_accession" /\ last.exc = "none") =>
        LET r == getitem(db, cache, StrKey(last.accession.name))
        IN  /\ r.exc = "none"
            /\ r.acc.metadata = last.accession.metadata
            /\ r.acc.files = last.accession.files

\* the values that two different Accessions hold under the column
Collisions(d, colname) ==
    {v \in Vals : \E r1 \in d.metadata : \E r2 \in d.metadata :
        /\ r1[2] = colname /\ r2[2] = colname
        /\ r1[3] = v /\ r2[3] = v
        /\ r1[1] # r2[1]}

\* C7: when alias(column) finds one value under the column for two
\* different Accessions, the value is warned as not unique, it is
\* inserted for neither, and no alias row holds it afterwards.
C7_CollisionsRejected ==
    (last.op = "alias_column" /\ last.exc = "none") =>
        \A v \in Collisions(db, last.colname) :
            /\ v \in last.warned
            /\ \A p \in last.accepted : p[1] # v
            /\ \A x \in db.aliases : x.alias # v

\* C8: for every alias v that alias(column, min_length) accepts for the
\* Accession named N (v being a value of N alone), get(v) afterwards
\* returns the record of get(N), whatever was resolved before the call.
C8_AliasGetsSameRecord ==
    (last.op = "alias_column" /\ last.exc = "none") =>
        \A p \in last.accepted : \A x \in db.accessions :
            (x.AID = p[2] /\ p[1] \notin Collisions(db, last.colname)) =>
                /\ getitem(db, cache, StrKey(p[1])).exc = "none"
                /\ getitem(db, cache, StrKey(p[1])).acc
                        = getitem(db, cache, StrKey(x.name)).acc

\* C9: resolve(identifier) returns the AID of the Accession of that name
\* if there is one; otherwise the AID of the alias equal to it if there
\* is one; otherwise the identifier when it is an existing AID; otherwise
\* it fails with NameError.
C9_ResolveOrder ==
    \A s \in Str :
        LET got     == get_AID(db, cache, StrKey(s)).AID
            isName  == \E r \in db.accessions : r.name = s
            isAlias == \E x \in db.aliases : x.alias = s
            isAID   == \E r \in db.accessions : r.AID = ToInt(s)
        IN  /\ \A r \in db.accessions : r.name = s => got = r.AID
            /\ ~isName => \A x \in db.aliases : x.alias = s => got = x.AID
            /\ (~isName /\ ~isAlias /\ isAID) => got = ToInt(s)
            /\ (~isName /\ ~isAlias /\ ~isAID) => got = NotFound

\* C10: in every reachable state each alias occurs at most once in the
\* aliases table and no alias equals the name of an existing Accession.
C10_AliasesUniqueNotNames ==
    /\ \A x \in db.aliases : \A y \in db.aliases : x.alias = y.alias => x = y
    /\ \A x \in db.aliases : \A r \in db.accessions : r.name # x.alias

\* C11: when delete(identifier) returns, for the AID the identifier
\* resolved to, no row of accessions, of metadata or of aid_files holds
\* that AID, and the length of the catalog is one less than before.
C11_DeleteRemovesRows ==
    [][(last'.op = "delitem" /\ last'.exc = "none") =>
        /\ \A r \in db'.accessions : r.AID # last'.AID
        /\ \A r \in db'.metadata : r[1] # last'.AID
        /\ \A r \in db'.aid_files : r.AID # last'.AID
        /\ len(db') = len(db) - 1]_vars

C13_SharedRawFile ==
    (last.op = "add_accessions" /\ last.exc = "none") =>
        /\ \A p \in last.linked :
                p[2] \in getitem(db, cache, StrKey(p[1])).acc.files
        /\ \A path \in Paths :
                Cardinality({r \in db.raw_files : r.path = path}) <= 1

\* the entries of the sequence are pairwise different
Distinct(seq) == \A i \in DOMAIN seq : \A j \in DOMAIN seq : seq[i] = seq[j] => i = j

\* C14: random_accessions(n) without replacement raises ValueError and
\* yields nothing when n exceeds the number of Accessions; for every other
\* n >= 0 it raises nothing and yields exactly n Accessions of the
\* catalog, pairwise distinct.
C14_SampleWithoutReplacement ==
    (last.op = "random_accessions" /\ ~last.replace) =>
        IF last.n > len(db)
        THEN last.exc = "ValueError" /\ last.sampled = <<>>
        ELSE /\ last.exc = "none"
             /\ Len(last.sampled) = last.n
             /\ Distinct(last.sampled)
             /\ Range(last.sampled) \subseteq db.accessions

\* C15: random_accessions(n) with replacement raises nothing for any
\* n >= 0, on an empty catalog too, while its n results are consumed, and
\* each result is an Accession of the catalog.
C15_SampleWithReplacement ==
    (last.op = "random_accessions" /\ last.replace) =>
        /\ last.exc = "none"
        /\ Len(last.sampled) = last.n
        /\ Range(last.sampled) \subseteq db.accessions

\* C16: in every reachable state, an identifier that the membership test
\* reports as contained is one that get returns an Accession of the
\* catalog for, without raising.
C16_ContainedIsGettable ==
    \A key \in Identifiers :
        contains(db, cache, key) =>
            LET r == getitem(db, cache, key)
            IN  /\ r.exc = "none"
                /\ [AID |-> r.acc.AID, name |-> r.acc.name] \in db.accessions

\* C17: a value of type int or str set under a key is what a get of that
\* key returns, with its type, whatever was set under the key before; the
\* set raises nothing and the key has one row.
C17_DictRoundTrip ==
    (last.op = "dict" /\ last.val.t \in {"int", "str"}) =>
        /\ last.exc = "none"
        /\ Cardinality({r \in db.globals : r.key = last.dkey}) = 1
        /\ dict_call(db, last.dkey, PyNone).exc = "none"
        /\ dict_call(db, last.dkey, PyNone).ret = last.val

\* the str '12' was set over the int 12
C17_Witness ==
    /\ last.op = "dict" /\ last.val = PyStr(<<"1", "2">>)
    /\ last.replaced = {[key |-> last.dkey, val |-> <<"1", "2">>, type |-> "int"]}
    /\ db.globals = {[key |-> last.dkey, val |-> <<"1", "2">>, type |-> "str"]}

\* C18: a set with a value whose type is none of int, float and str raises
\* an error that is not the one a get of an absent key raises, and leaves
\* the table as it was.
C18_RejectedTypeDistinguishable ==
    [][(/\ last'.op = "dict"
        /\ last'.val # PyNone
        /\ guess_type(last'.val) \notin {"int", "float", "str"}) =>
            /\ last'.exc # "none"
            /\ \A key \in DictKeys :
                   (~ \E r \in db.globals : r.key = key) =>
                       last'.exc # dict_call(db, key, PyNone).exc
            /\ db'.globals = db.globals]_vars

\* C19: the directory of an object is a function of (dtype, name, parent);
\* constructing an object whose directory is there makes nothing; and two
\* objects under the same parent with different (dtype, name) have
\* different directories.
C19_DirectoryCollisionFree ==
    /\ \A o1, o2 \in objects :
           (o1.dtype = o2.dtype /\ o1.name = o2.name /\ o1.parent = o2.parent)
               => o1.basedir = o2.basedir
    /\ (last.op = "Freezable" /\ last.existed) => last.made = {}
    /\ \A o1, o2 \in objects :
           (o1.parent = o2.parent /\ <<o1.dtype, o1.name>> # <<o2.dtype, o2.name>>)
               => o1.basedir # o2.basedir

\* C20: a put of a DataFrame raises nothing and a get of the table
\* returns that DataFrame, its index included, whatever was put under the
\* name before.
C20_ColumnStoreRoundTrip ==
    (last.op = "bcolz" /\ last.df # NoFrame) =>
        /\ last.exc = "none"
        /\ bcolz_call(fs, last.self, last.tblname, NoFrame).exc = "none"
        /\ bcolz_call(fs, last.self, last.tblname, NoFrame).ret = last.df

\* the text has the substring in it, character for character
Contains(text, substring) ==
    \E i \in 1..(Len(text) - Len(substring) + 1) :
        SubSeq(text, i, i + Len(substring) - 1) = substring

\* C21: search_names returns the names that have the substring in them,
\* then the aliases that have it in them, where the substring is matched
\* character for character and with regard to case.
C21_SearchLiteral ==
    last.op = "search_names" =>
        /\ last.found.names =
               {r.name : r \in {x \in db.accessions :
                                   Contains(Spell(x.name), last.substring)}}
        /\ last.found.aliases =
               {r.alias : r \in {x \in db.aliases :
                                    Contains(Spell(x.alias), last.substring)}}

\* C22: when __delitem__ has returned and no _get_AID is in flight, the
\* cache holds the AID of a deleted Accession under no key, so no later
\* _get_AID returns one from the cache.
C22_NoDeletedAIDCached ==
    (tasks.reader.pc = "idle" /\ tasks.writer.pc = "idle") =>
        \A key \in Keys : cache[key] \notin tasks.deleted

\* C23: an add_accession or add_accessions whose with-block raises an
\* Exception leaves the cache of _get_AID as it was before the call.
C23_FailedAddLeavesCache ==
    [][(/\ last'.op \in {"add_accession", "add_accessions"}
        /\ IsException(last'.body_exc)) => cache' = cache]_vars

\* C24: when a block entered inside an open block raises an exception
\* that the outer body catches, the outer body catches that exception,
\* the write of the inner block is undone and the write of the outer
\* block stays, and two save-points are set and each is released once.
C24_NestedBlocks ==
    [][last'.op = "nested" =>
        /\ last'.caught = "KeyError"
        /\ \E r \in db'.accessions : r.name = last'.outer
        /\ (\E r \in db'.accessions : r.name = last'.inner) <=>
               (\E r \in db.accessions : r.name = last'.inner)
        /\ Times(last'.events, "SAVEPOINT") = 2
        /\ Times(last'.events, "ROLLBACK TO") = 1
        /\ Times(last'.events, "RELEASE") = 2]_vars

\* C25: the AID of an Accession created by a call is greater than every
\* AID in the table before the call and than every AID the cache held
\* before the call, which are AIDs that identifiers have resolved to.
C25_AIDsNeverReused ==
    [][\A r \in db'.accessions \ db.accessions :
        /\ \A r0 \in db.accessions : r0.AID < r.AID
        /\ \A key \in Keys : cache[key] < r.AID]_vars

\* C26: alias_column raises nothing; a value of the column that is shorter
\* than min_alias_length, or that is a name or an alias already, is warned
\* about and its alias rows stay as they were, and every other value of
\* the column becomes an alias; a second alias_column of the same column
\* right after the first leaves the aliases as they were.
C26_AliasRejectsQuietly ==
    [][last'.op = "alias_column" =>
        /\ last'.exc = "none"
        /\ \A v \in {r[1] : r \in alias_rows(db, last'.colname)} :
               IF \/ Len(v) < last'.min_len
                  \/ \E r \in db.accessions : r.name = v
                  \/ \E x \in db.aliases : x.alias = v
               THEN /\ v \in last'.warned \cup last'.skipped
                    /\ {x \in db'.aliases : x.alias = v} =
                           {x \in db.aliases : x.alias = v}
               ELSE \E x \in db'.aliases : x.alias = v
        /\ (/\ last.op = "alias_column"
            /\ last.colname = last'.colname
            /\ last.min_len = last'.min_len) => db'.aliases = db.aliases]_vars

\* a second alias_column has warned about a value that was an alias before
C26_Witness ==
    /\ last.op = "alias_column" /\ last.exc = "none"
    /\ \E a \in last.warned : \E x \in db.aliases : x.alias = a
    /\ last.accepted = {}

\* C27: a __delitem__ or drop_aliases on one Cohort leaves the memoized
\* entries of the other Cohort as they were, and a _get_AID on one Cohort
\* that has no entry of its own for the key returns what its own tables
\* hold, whatever the other Cohort has memoized.
C27_CachePrivate ==
    [][/\ last'.op \in {"delitem", "drop_aliases"} => peer'.cache = peer.cache
       /\ (last'.op = "resolve" /\ cache[last'.key] = 0) =>
              last'.AID = get_AID_body(db, last'.key.id)]_vars

\* C28: every row of aliases has the AID of a row of accessions, so an
\* alias of a deleted Accession resolves no more.
C28_AliasesReferToAccessions ==
    \A x \in db.aliases : \E r \in db.accessions : r.AID = x.AID

\* C29: after every call each row of aid_files has the FID of a row of
\* raw_files and the AID of a row of accessions, and a path that had an
\* FID before the call has the same FID after it.
C29_FileLinksIntact ==
    [][/\ \A l \in db'.aid_files :
            /\ \E f \in db'.raw_files : f.FID = l.FID
            /\ \E r \in db'.accessions : r.AID = l.AID
       /\ \A f \in db.raw_files : \A g \in db'.raw_files :
            f.path = g.path => f.FID = g.FID]_vars

\* C30: a __delitem__ of an identifier that names an Accession of the
\* tables raises nothing and leaves the accessions, metadata and aid_files
\* rows of every other AID, and the whole of raw_files, as they were; a
\* __delitem__ of an identifier that names none raises NameError and
\* leaves every table and the cache as they were.
C30_DeleteOnlyTheTarget ==
    [][last'.op = "delitem" =>
        \E target \in {get_AID_body(db, last'.key.id)} :
        IF target # NotFound
        THEN /\ last'.exc = "none"
             /\ {r \in db'.accessions : r.AID # target} =
                    {r \in db.accessions : r.AID # target}
             /\ {r \in db'.metadata : r[1] # target} =
                    {r \in db.metadata : r[1] # target}
             /\ {r \in db'.aid_files : r.AID # target} =
                    {r \in db.aid_files : r.AID # target}
             /\ db'.raw_files = db.raw_files
        ELSE /\ last'.exc = "NameError"
             /\ db' = db
             /\ cache' = cache]_vars

====
